---------------------------- MODULE Spec2Model ----------------------------
(***************************************************************************)
(* Irrigation backend (src/main.py): the background monitor                *)
(* monitor_firebase_sensor_data, the pipeline predict_irrigation and the   *)
(* routes /predict, /health and /trigger-prediction, running concurrently  *)
(* against one Firebase node `sensorData`.                                 *)
(*                                                                         *)
(* Numbers are integers (the thresholds compare against whole numbers);    *)
(* the rainfall placeholder 0.5 is kept in tenths.  A timestamp is the     *)
(* value of the wall clock `now` when datetime.now() is called.            *)
(***************************************************************************)
EXTENDS Integers, FiniteSets, Sequences, TLC

\* ------------------------------------------------------------ bounds
\* Number of inbound requests served (one handler thread per request).
MaxRequests == 1
\* Last value of the wall clock.
MaxClock == 1
\* Number of writes the sensor uplink makes to the store.
MaxUplink == 1

\* ------------------------------------------------------------ values
\* A key that is not in a dict / a path that holds null.
Missing == -2
\* A string value that float() rejects with ValueError.
NonNumeric == -1

\* Class ids model.predict can return.
Classes == {0, 1}

max_errors == 5
HEAT_TEMPERATURE == 35
HEAT_HUMIDITY == 50
DROUGHT_SOIL == 30
\* 'rainfall_mm_prediction_next_1h': 0.5, in tenths of a millimetre
RAINFALL_TENTHS == 5
\* the `< 1` of drought_stress, in tenths
DROUGHT_RAIN_TENTHS == 10

required_fields == {"humidity", "temperature", "soilMoisture"}

\* A dict without any of the three sensor keys.
NoFields == [humidity |-> Missing, temperature |-> Missing, soilMoisture |-> Missing]

\* Python None, which is also what get() returns for a node without children.
None ==
  [humidity |-> Missing, temperature |-> Missing, soilMoisture |-> Missing,
   raw |-> NoFields, prediction_class |-> Missing, last_prediction_time |-> Missing]

\* What the sensor uplink can put at `sensorData` or at `sensorData/raw`.
SnapA == [humidity |-> 60, temperature |-> 30, soilMoisture |-> 45]
SnapB == [humidity |-> 40, temperature |-> 38, soilMoisture |-> 20]
SnapIncomplete == [humidity |-> 60, temperature |-> 30, soilMoisture |-> Missing]
SnapBad == [humidity |-> 60, temperature |-> NonNumeric, soilMoisture |-> 45]
Snapshots == {SnapA, SnapB, SnapIncomplete, SnapBad}
RawSnapshots == {SnapA, SnapIncomplete, SnapBad}

\* What the store can hold when the service starts.
InitialStores ==
  {[humidity |-> t.humidity, temperature |-> t.temperature, soilMoisture |-> t.soilMoisture,
    raw |-> r, prediction_class |-> Missing, last_prediction_time |-> Missing] :
     t \in {NoFields, SnapA}, r \in {NoFields}}

\* Bodies of POST /predict that pass the SensorData schema.
RouteInputs == {SnapB}

\* Inputs of the feature computation, on both sides of every threshold.
GridTemperature == {30, 35, 36, 38}
GridHumidity == {40, 49, 50, 60}
GridSoil == {20, 29, 30, 45}

\* Stores with the sensor fields in place, at `sensorData` and at `sensorData/raw`.
QuiescentStores ==
  {[humidity |-> t.humidity, temperature |-> t.temperature, soilMoisture |-> t.soilMoisture,
    raw |-> r, prediction_class |-> Missing, last_prediction_time |-> Missing] :
     t \in {SnapA}, r \in {NoFields, SnapA}}

Requests == 1 .. MaxRequests
Poller == 0
Threads == {Poller} \cup Requests

VARIABLES
  store,               \* the node `sensorData` of the Remote State Store
  now,                 \* wall clock
  uplink,              \* writes the sensor uplink has made (bounds the environment)
  pc,                  \* where each thread is
  op,                  \* the route a request thread serves
  call,                \* locals of each thread's predict_irrigation frame
  result,              \* the poller's `result` (line 199)
  response,            \* what each request returned
  current_data,        \* the `current_data` of each trigger_prediction
  current,             \* the poller's `current`, from the read that found it changed
                       \* until lines 199-202 are done (None otherwise: the next
                       \* iteration assigns it before reading it)
  last_values,         \* the poller's `last_values`
  consecutive_errors,  \* the poller's `consecutive_errors`
  last_read,           \* the node the poller's latest successful get() returned,
                       \* when it was complete and coercible (else None)
  read_ok              \* whether the poller's latest get() returned (line 182)

vars ==
  <<store, now, uplink, pc, op, call, result, response, current_data, current,
    last_values, consecutive_errors, last_read, read_ok>>

\* ------------------------------------------------------------ pipeline
NoCall ==
  [data |-> NoFields, heat_stress |-> 0, drought_stress |-> 0,
   irrigation_class |-> Missing, timestamp |-> Missing]

NoResult ==
  [kind |-> "none", irrigation_class |-> Missing, timestamp |-> Missing, error |-> ""]

\* {"error": str(e)}
ErrorResult(e) ==
  [kind |-> "error", irrigation_class |-> Missing, timestamp |-> Missing, error |-> e]

\* {"irrigation_class": irrigation_class, "timestamp": timestamp}
OkResult(c) ==
  [kind |-> "ok", irrigation_class |-> c.irrigation_class, timestamp |-> c.timestamp,
   error |-> ""]

NoResponse == [status |-> "none", message |-> "", result |-> NoResult, input_data |-> NoFields]

\* Mutant of heat_stress: the temperature threshold is inclusive.
heat_stress_inclusive(d) ==
  IF d.temperature >= HEAT_TEMPERATURE /\ d.humidity < HEAT_HUMIDITY THEN 1 ELSE 0

heat_stress(d) ==
  IF d.temperature > HEAT_TEMPERATURE /\ d.humidity < HEAT_HUMIDITY THEN 1 ELSE 0

drought_stress(d) ==
  IF d.soilMoisture < DROUGHT_SOIL /\ RAINFALL_TENTHS < DROUGHT_RAIN_TENTHS THEN 1 ELSE 0

\* Mutant of PredictCatches: the handler is `except ValueError`.
PredictCatches_value_only(e) == e = "ValueError"

\* `except Exception` of predict_irrigation
PredictCatches(e) == TRUE

\* ------------------------------------------------------------ callers
\* Mutant of Coercible: the values are passed on without float().
Coercible_always(d) == TRUE

\* float(x): the value, for anything but a non-numeric string
Coercible(d) == \A f \in required_fields : d[f] # NonNumeric

\* d.get(field, 0.0)
GetOrZero(d, f) == IF d[f] = Missing THEN 0 ELSE d[f]

SensorData(d) ==
  [humidity |-> GetOrZero(d, "humidity"), temperature |-> GetOrZero(d, "temperature"),
   soilMoisture |-> GetOrZero(d, "soilMoisture")]

\* Mutant of HasRequired: `any` for `all`.
HasRequired_any(d) == \E f \in required_fields : d[f] # Missing

\* all(field in current for field in required_fields)
HasRequired(d) == \A f \in required_fields : d[f] # Missing

\* Mutant of Truthy: the `if current_data:` test is dropped.
Truthy_always(d) == TRUE

\* `if current_data:`
Truthy(d) == d # NoFields

\* `not d`: a dict without keys (get() never returns one: it returns None)
Empty(d) == d = None

\* Mutant of Changed: only the three sensor fields are compared.
Changed_fields_only(cur, last) ==
  last = None \/ \E f \in required_fields : cur[f] # last[f]

\* last_values is None or current != last_values or not last_values
Changed(cur, last) == last = None \/ cur # last \/ Empty(last)

\* Mutant of TooManyErrors: `>` for `>=`.
TooManyErrors_strict(n) == n > max_errors

\* consecutive_errors >= max_errors
TooManyErrors(n) == n >= max_errors

\* Mutant of NextLastValues: the node is remembered only when the pipeline
\* returned a prediction.
NextLastValues_on_success(cur, res, last) == IF res.kind = "ok" THEN cur ELSE last

\* last_values = current.copy(), whatever `result` is
NextLastValues(cur, res, last) == cur

\* ------------------------------------------------------------ initial state
\* Mutant of Start: the monitor starts with the node the store holds as the one
\* it processed last (state kept across a restart).
Start_persisted(stores) ==
  /\ store \in stores
  /\ now = 0
  /\ uplink = 0
  /\ pc = [t \in Threads |-> IF t = Poller THEN "poll" ELSE "new"]
  /\ op = [t \in Requests |-> "none"]
  /\ call = [t \in Threads |-> NoCall]
  /\ result = NoResult
  /\ response = [t \in Requests |-> NoResponse]
  /\ current_data = [t \in Requests |-> NoFields]
  /\ current = None
  /\ last_values = store
  /\ consecutive_errors = 0
  /\ last_read = None
  /\ read_ok = FALSE

Start(stores) ==
  /\ store \in stores
  /\ now = 0
  /\ uplink = 0
  /\ pc = [t \in Threads |-> IF t = Poller THEN "poll" ELSE "new"]
  /\ op = [t \in Requests |-> "none"]
  /\ call = [t \in Threads |-> NoCall]
  /\ result = NoResult
  /\ response = [t \in Requests |-> NoResponse]
  /\ current_data = [t \in Requests |-> NoFields]
  /\ current = None
  /\ last_values = None
  /\ consecutive_errors = 0
  /\ last_read = None
  /\ read_ok = FALSE

Init == Start(InitialStores)

\* ------------------------------------------------------------ environment
\* The wall clock advances.
Tick ==
  /\ now < MaxClock
  /\ now' = now + 1
  /\ UNCHANGED <<store, uplink, pc, op, call, result, response, current_data, current,
                 last_values, consecutive_errors, last_read, read_ok>>

\* The sensor uplink overwrites the three fields at `sensorData` or at
\* `sensorData/raw`.
UplinkWrite(path, snap) ==
  /\ uplink < MaxUplink
  /\ uplink' = uplink + 1
  /\ snap \in (IF path = "sensorData" THEN Snapshots ELSE RawSnapshots)
  /\ store' =
       IF path = "sensorData"
       THEN [store EXCEPT !.humidity = snap.humidity, !.temperature = snap.temperature,
                          !.soilMoisture = snap.soilMoisture]
       ELSE [store EXCEPT !.raw = snap]
  /\ UNCHANGED <<now, pc, op, call, result, response, current_data, current,
                 last_values, consecutive_errors, last_read, read_ok>>

\* ------------------------------------------------------------ continuations
\* The outer `except Exception` of the monitor loop (lines 215-220).
OuterExcept ==
  /\ consecutive_errors' = consecutive_errors + 1
  /\ pc' = [pc EXCEPT ![Poller] =
              IF TooManyErrors(consecutive_errors + 1) THEN "stopped" ELSE "poll"]
  /\ call' = [call EXCEPT ![Poller] = NoCall]
  /\ current' = None
  /\ UNCHANGED <<result, response, last_values>>

\* predict_irrigation returns `res` to the code that called it on thread t.
Return(t, res) ==
  IF t = Poller
  THEN \* lines 199-202
       /\ result' = res
       /\ last_values' = NextLastValues(current, res, last_values)
       /\ consecutive_errors' = 0
       /\ current' = None
       /\ pc' = [pc EXCEPT ![t] = "poll"]
       /\ call' = [call EXCEPT ![t] = NoCall]
       /\ UNCHANGED response
  ELSE \* line 125, lines 161-162
       /\ response' = [response EXCEPT ![t] =
                         IF op[t] = "trigger"
                         THEN [status |-> "success", message |-> "", result |-> res,
                               input_data |-> current_data[t]]
                         ELSE [status |-> "result", message |-> "", result |-> res,
                               input_data |-> NoFields]]
       /\ pc' = [pc EXCEPT ![t] = "done"]
       /\ call' = [call EXCEPT ![t] = NoCall]
       /\ UNCHANGED <<result, current, last_values, consecutive_errors>>

\* An exception e leaves predict_irrigation on thread t.
Raise(t, e) ==
  IF t = Poller
  THEN IF e \in {"ValueError", "TypeError"}
       THEN \* lines 203-205
            /\ pc' = [pc EXCEPT ![t] = "poll"]
            /\ call' = [call EXCEPT ![t] = NoCall]
            /\ current' = None
            /\ UNCHANGED <<result, response, last_values, consecutive_errors>>
       ELSE OuterExcept
  ELSE \* predict_route has no handler; trigger_prediction has lines 166-167
       /\ response' = [response EXCEPT ![t] =
                         IF op[t] = "trigger"
                         THEN [status |-> "error", message |-> e, result |-> NoResult,
                               input_data |-> NoFields]
                         ELSE [status |-> "unhandled", message |-> e, result |-> NoResult,
                               input_data |-> NoFields]]
       /\ pc' = [pc EXCEPT ![t] = "done"]
       /\ call' = [call EXCEPT ![t] = NoCall]
       /\ UNCHANGED <<result, current, last_values, consecutive_errors>>

\* An exception e is raised inside the `try` of predict_irrigation (lines 109-111).
Except(t, e) == IF PredictCatches(e) THEN Return(t, ErrorResult(e)) ELSE Raise(t, e)

\* ------------------------------------------------------------ predict_irrigation
\* Lines 54-102: features, encoders, scaler, classifier, timestamp.
PredictCompute(t) ==
  /\ pc[t] = "predict"
  /\ \/ \E e \in {"ValueError", "KeyError"} : Except(t, e)
     \/ \E c \in Classes :
          /\ call' = [call EXCEPT ![t] =
                        [@ EXCEPT !.heat_stress = heat_stress(call[t].data),
                                  !.drought_stress = drought_stress(call[t].data),
                                  !.irrigation_class = c, !.timestamp = now]]
          /\ pc' = [pc EXCEPT ![t] = "set_class"]
          /\ UNCHANGED <<result, response, current, last_values, consecutive_errors>>
  /\ UNCHANGED <<store, now, uplink, op, current_data, last_read, read_ok>>

\* Line 103: db.reference('sensorData/prediction_class').set(irrigation_class)
PredictSetClass(t) ==
  /\ pc[t] = "set_class"
  /\ \/ /\ Except(t, "FirebaseError")
        /\ UNCHANGED store
     \/ /\ store' = [store EXCEPT !.prediction_class = call[t].irrigation_class]
        /\ pc' = [pc EXCEPT ![t] = "set_time"]
        /\ UNCHANGED <<call, result, response, current, last_values, consecutive_errors>>
  /\ UNCHANGED <<now, uplink, op, current_data, last_read, read_ok>>

\* Lines 104-108: db.reference('sensorData/last_prediction_time').set(timestamp)
PredictSetTime(t) ==
  /\ pc[t] = "set_time"
  /\ \/ /\ Except(t, "FirebaseError")
        /\ UNCHANGED store
     \/ /\ store' = [store EXCEPT !.last_prediction_time = call[t].timestamp]
        /\ Return(t, OkResult(call[t]))
  /\ UNCHANGED <<now, uplink, op, current_data, last_read, read_ok>>

\* ------------------------------------------------------------ routes
\* POST /predict
predict_route(t, data) ==
  /\ pc[t] = "new"
  /\ op' = [op EXCEPT ![t] = "predict"]
  /\ pc' = [pc EXCEPT ![t] = "predict"]
  /\ call' = [call EXCEPT ![t] = [NoCall EXCEPT !.data = SensorData(data)]]
  /\ UNCHANGED <<store, now, uplink, result, response, current_data, current, last_values,
                 consecutive_errors, last_read, read_ok>>

\* Mutant of health_check: a reachable store also clears the monitor's counter.
health_check_resets(t) ==
  /\ pc[t] = "new"
  /\ op' = [op EXCEPT ![t] = "health"]
  /\ pc' = [pc EXCEPT ![t] = "done"]
  /\ response' = [response EXCEPT ![t] =
                    [status |-> "healthy", message |-> "", result |-> NoResult,
                     input_data |-> store.raw]]
  /\ consecutive_errors' = 0
  /\ UNCHANGED <<store, now, uplink, call, result, current_data, current, last_values,
                 last_read, read_ok>>

\* GET /health
health_check(t) ==
  /\ pc[t] = "new"
  /\ op' = [op EXCEPT ![t] = "health"]
  /\ pc' = [pc EXCEPT ![t] = "done"]
  /\ \/ \* test_ref.get() returns
        response' = [response EXCEPT ![t] =
                       [status |-> "healthy", message |-> "", result |-> NoResult,
                        input_data |-> store.raw]]
     \/ \* test_ref.get() raises
        response' = [response EXCEPT ![t] =
                       [status |-> "unhealthy", message |-> "FirebaseError",
                        result |-> NoResult, input_data |-> NoFields]]
  /\ UNCHANGED <<store, now, uplink, call, result, current_data, current, last_values,
                 consecutive_errors, last_read, read_ok>>

\* What trigger_prediction does with the node get() returned (lines 155-160):
\* "invoke" the pipeline, report "nodata", or the exception the conversion raises.
TriggerBranch(d) ==
  IF ~Truthy(d) THEN "nodata"
  ELSE IF d = NoFields THEN "AttributeError"
  ELSE IF ~Coercible(d) THEN "ValueError"
  ELSE "invoke"

\* POST /trigger-prediction, up to the call of predict_irrigation
trigger_prediction(t) ==
  /\ pc[t] = "new"
  /\ op' = [op EXCEPT ![t] = "trigger"]
  /\ \/ \* ref.get() raises
        /\ pc' = [pc EXCEPT ![t] = "done"]
        /\ response' = [response EXCEPT ![t] =
                          [status |-> "error", message |-> "FirebaseError",
                           result |-> NoResult, input_data |-> NoFields]]
        /\ UNCHANGED <<call, current_data>>
     \/ \* ref.get() returns the node
        LET b == TriggerBranch(store.raw) IN
        IF b = "invoke"
        THEN /\ pc' = [pc EXCEPT ![t] = "predict"]
             /\ current_data' = [current_data EXCEPT ![t] = store.raw]
             /\ call' = [call EXCEPT ![t] = [NoCall EXCEPT !.data = SensorData(store.raw)]]
             /\ UNCHANGED response
        ELSE /\ pc' = [pc EXCEPT ![t] = "done"]
             /\ response' = [response EXCEPT ![t] =
                   [status |-> "error",
                    message |-> IF b = "nodata" THEN "No sensor data found" ELSE b,
                    result |-> NoResult, input_data |-> NoFields]]
             /\ UNCHANGED <<call, current_data>>
  /\ UNCHANGED <<store, now, uplink, result, current, last_values,
                 consecutive_errors, last_read, read_ok>>

\* ------------------------------------------------------------ monitor
\* Mutant of Present: the `if current is not None:` test is dropped.
Present_always(d) == TRUE

\* current is not None
Present(d) == d # None

\* What the loop body does with the node get() returned (lines 185-209): skip it
\* as "absent", "unchanged", "missing" (fields) or "invalid" (float() raises,
\* caught at line 203), "invoke" the pipeline, or the exception that reaches the
\* outer handler (`field in current` on None).
MonitorBranch(cur, last) ==
  IF ~Present(cur) THEN "absent"
  ELSE IF ~Changed(cur, last) THEN "unchanged"
  ELSE IF cur = None THEN "TypeError"
  ELSE IF ~HasRequired(cur) THEN "missing"
  ELSE IF ~Coercible(cur) THEN "invalid"
  ELSE "invoke"

\* One pass of the loop body up to the call of predict_irrigation (lines 180-198)
\* or, when nothing is to be done, up to the sleep.
PollerRead ==
  /\ pc[Poller] = "poll"
  /\ \/ \* ref.get() raises
        /\ read_ok' = FALSE
        /\ OuterExcept
        /\ UNCHANGED last_read
     \/ \* ref.get() returns the node
        /\ read_ok' = TRUE
        /\ last_read' = IF HasRequired(store) /\ Coercible(store) THEN store ELSE None
        /\ LET b == MonitorBranch(store, last_values) IN
           IF b = "invoke"
           THEN /\ current' = store
                /\ call' = [call EXCEPT ![Poller] = [NoCall EXCEPT !.data = SensorData(store)]]
                /\ pc' = [pc EXCEPT ![Poller] = "predict"]
                /\ UNCHANGED <<result, response, last_values, consecutive_errors>>
           ELSE IF b = "TypeError"
           THEN OuterExcept
           ELSE UNCHANGED <<pc, call, result, response, current, last_values,
                            consecutive_errors>>
  /\ UNCHANGED <<store, now, uplink, op, current_data>>

Next ==
  \/ Tick
  \/ \E path \in {"sensorData", "sensorData/raw"}, snap \in Snapshots \cup RawSnapshots : UplinkWrite(path, snap)
  \/ PollerRead
  \/ \E t \in Threads : PredictCompute(t)
  \/ \E t \in Threads : PredictSetClass(t)
  \/ \E t \in Threads : PredictSetTime(t)
  \/ \E t \in Requests, data \in RouteInputs : predict_route(t, data)
  \/ \E t \in Requests : health_check(t)
  \/ \E t \in Requests : trigger_prediction(t)

Spec == Init /\ [][Next]_vars

\* The monitor thread alone, with the uplink and the clock.
NextMonitor ==
  \/ Tick
  \/ \E path \in {"sensorData", "sensorData/raw"}, snap \in Snapshots \cup RawSnapshots :
       UplinkWrite(path, snap)
  \/ PollerRead
  \/ PredictCompute(Poller)
  \/ PredictSetClass(Poller)
  \/ PredictSetTime(Poller)

SpecMonitor == Init /\ [][NextMonitor]_vars

\* The request handlers alone, with the uplink and the clock.
NextRoutes ==
  \/ Tick
  \/ \E snap \in RawSnapshots : UplinkWrite("sensorData/raw", snap)
  \/ \E t \in Requests : PredictCompute(t)
  \/ \E t \in Requests : PredictSetClass(t)
  \/ \E t \in Requests : PredictSetTime(t)
  \/ \E t \in Requests, data \in RouteInputs : predict_route(t, data)
  \/ \E t \in Requests : health_check(t)
  \/ \E t \in Requests : trigger_prediction(t)

SpecRoutes == Init /\ [][NextRoutes]_vars

\* The monitor and the request handlers interleaved, over a store nobody else
\* writes and a clock that stands still.
NextFrame ==
  \/ PollerRead
  \/ \E t \in Threads : PredictCompute(t)
  \/ \E t \in Threads : PredictSetClass(t)
  \/ \E t \in Threads : PredictSetTime(t)
  \/ \E t \in Requests, data \in RouteInputs : predict_route(t, data)
  \/ \E t \in Requests : health_check(t)
  \/ \E t \in Requests : trigger_prediction(t)

SpecFrame == Start(QuiescentStores) /\ [][NextFrame]_vars

\* The feature computation on the grid of inputs, through POST /predict.
GridInputs ==
  {[humidity |-> h, temperature |-> t, soilMoisture |-> m] :
     h \in GridHumidity, t \in GridTemperature, m \in GridSoil}

NextFeatures ==
  \/ \E t \in Requests, data \in GridInputs : predict_route(t, data)
  \/ \E t \in Requests : PredictCompute(t)
  \/ \E t \in Requests : PredictSetClass(t)
  \/ \E t \in Requests : PredictSetTime(t)

SpecFeatures == Init /\ [][NextFeatures]_vars

\* ------------------------------------------------------------ properties
InPredict(t) == pc[t] \in {"predict", "set_class", "set_time"}

\* The monitor calls predict_irrigation in this step.
PollerInvokes == pc[Poller] = "poll" /\ pc'[Poller] = "predict"

\* predict_irrigation comes back to the monitor in this step.
PollerReturns == InPredict(Poller) /\ pc'[Poller] = "poll"

\* C1: after a successful read of a complete, coercible node A, the monitor has
\* processed A by the time it polls again; a following read that returns A again
\* does not invoke the pipeline, and one that returns a complete, coercible
\* B # A does invoke it.
C1Processed == (pc[Poller] = "poll" /\ last_read # None) => last_values = last_read

C1Step ==
  last_read # None =>
    /\ PollerInvokes => current' # last_read
    /\ (last_read' # None /\ last_read' # last_read) => PollerInvokes

ClaimC1 == [](C1Processed) /\ [][C1Step]_vars

\* The monitor, having processed one node, is invoking the pipeline on another.
WitnessC1 ==
  /\ pc[Poller] = "predict"
  /\ last_values # None
  /\ result.kind # "none"
  /\ current # last_values
  /\ last_read = current

\* C2: whenever the monitor's latest get() succeeded and the iteration is over,
\* consecutive_errors is zero.
ClaimC2 == (pc[Poller] = "poll" /\ read_ok) => consecutive_errors = 0

\* C3: at the ceiling the loop is over for good: the monitor never polls or
\* invokes again and its state is frozen; below the ceiling a failed read is
\* followed by the next iteration.
C3Stopped ==
  /\ consecutive_errors >= 5 => pc[Poller] = "stopped"
  /\ pc[Poller] = "stopped" => ~ENABLED (PollerRead \/ PredictCompute(Poller)
                                          \/ PredictSetClass(Poller) \/ PredictSetTime(Poller))

C3Step ==
  /\ pc[Poller] = "stopped" =>
       /\ pc'[Poller] = "stopped"
       /\ UNCHANGED <<last_values, consecutive_errors, current, last_read, read_ok, result>>
  /\ (consecutive_errors' = consecutive_errors + 1 /\ consecutive_errors' < 5) =>
       pc'[Poller] = "poll"

ClaimC3 == [](C3Stopped) /\ [][C3Step]_vars

WitnessC3 == pc[Poller] = "stopped" /\ consecutive_errors = 5 /\ ~read_ok

\* C4: no result of predict_irrigation reports a failed store write as an error
\* (a write that fails after the classification is swallowed and the prediction
\* is returned).
ClaimC4 ==
  /\ \A t \in Requests :
       response[t].result.kind = "error" => response[t].result.error # "FirebaseError"
  /\ result.kind = "error" => result.error # "FirebaseError"

\* One of the two shapes of a PredictionResult.
ResultShape(r) ==
  \/ /\ r.kind = "ok"
     /\ r.irrigation_class \in Classes
     /\ r.timestamp \in 0 .. now
     /\ r.error = ""
  \/ /\ r.kind = "error"
     /\ r.irrigation_class = Missing
     /\ r.timestamp = Missing
     /\ r.error \in {"ValueError", "KeyError", "FirebaseError"}

\* C5: a thread inside predict_irrigation can always take its next step, and it
\* leaves predict_irrigation only by a return of one of the two result shapes:
\* a request answers with that result, the monitor goes on to lines 200-202.
C5Progress ==
  \A t \in Threads :
    InPredict(t) => ENABLED (PredictCompute(t) \/ PredictSetClass(t) \/ PredictSetTime(t))

C5Step ==
  /\ \A t \in Requests :
       (InPredict(t) /\ pc'[t] # pc[t] /\ ~InPredict(t)') =>
         /\ pc'[t] = "done"
         /\ response'[t].status = (IF op[t] = "trigger" THEN "success" ELSE "result")
         /\ ResultShape(response'[t].result)
  /\ (InPredict(Poller) /\ ~InPredict(Poller)') =>
         /\ pc'[Poller] = "poll"
         /\ ResultShape(result')
         /\ consecutive_errors' = 0

ClaimC5 == [](C5Progress) /\ [][C5Step]_vars

\* A store write failed inside predict_irrigation and the caller got {error}.
WitnessC5 ==
  \E t \in Requests :
    /\ pc[t] = "done"
    /\ op[t] = "predict"
    /\ response[t].result = ErrorResult("FirebaseError")

\* C6: the trigger reports success only for a node that holds the three
\* required fields.
ClaimC6 ==
  \A t \in Requests : response[t].status = "success" => HasRequired(response[t].input_data)

\* C7: a trigger that finds no node at `sensorData/raw` answers "No sensor data
\* found" at once, without entering predict_irrigation and without touching the
\* store; having answered so, it is over and carries no result.
C7Answered ==
  \A t \in Requests :
    response[t].message = "No sensor data found" =>
      /\ pc[t] = "done"
      /\ response[t].status = "error"
      /\ response[t].result = NoResult

C7Step ==
  \A t \in Requests :
    (/\ pc[t] = "new"
     /\ op'[t] = "trigger"
     /\ store.raw = NoFields
     /\ response'[t].message # "FirebaseError") =>
      /\ pc'[t] = "done"
      /\ response'[t].message = "No sensor data found"
      /\ call'[t] = NoCall
      /\ store' = store

ClaimC7 == [](C7Answered) /\ [][C7Step]_vars

WitnessC7 ==
  \E t \in Requests :
    /\ op[t] = "trigger"
    /\ response[t].message = "No sensor data found"
    /\ store.raw = NoFields

\* A step of the handler of request t.
RequestStep(t) ==
  \/ \E data \in RouteInputs : predict_route(t, data)
  \/ health_check(t)
  \/ trigger_prediction(t)
  \/ PredictCompute(t)
  \/ PredictSetClass(t)
  \/ PredictSetTime(t)

\* A step of the monitor thread.
PollerStep ==
  \/ PollerRead
  \/ PredictCompute(Poller)
  \/ PredictSetClass(Poller)
  \/ PredictSetTime(Poller)

\* C8: a step of a request handler leaves last_values and consecutive_errors as
\* they are; they change only in steps of the monitor.
C8Step ==
  /\ (\E t \in Requests : RequestStep(t)) => UNCHANGED <<last_values, consecutive_errors>>
  /\ (last_values' # last_values \/ consecutive_errors' # consecutive_errors) => PollerStep

ClaimC8 == [][C8Step]_vars

\* A request was served while the monitor held a processed node and a count.
WitnessC8 ==
  \E t \in Requests :
    /\ pc[t] = "done"
    /\ last_values # None
    /\ consecutive_errors > 0

\* C9: heat stress is 1 exactly when temperature > 35 and humidity < 50, drought
\* stress is 1 exactly when soilMoisture < 30, both are 0 otherwise; the two
\* snapshots of the scenario give (0, 0) and (1, 1).
ClaimC9 ==
  \A t \in Requests :
    pc[t] \in {"set_class", "set_time"} =>
      LET d == call[t].data
          h == call[t].heat_stress
          g == call[t].drought_stress
      IN /\ h \in {0, 1}
         /\ g \in {0, 1}
         /\ h = 1 <=> (d.temperature > 35 /\ d.humidity < 50)
         /\ g = 1 <=> d.soilMoisture < 30
         /\ d = [humidity |-> 60, temperature |-> 30, soilMoisture |-> 45] => (h = 0 /\ g = 0)
         /\ d = [humidity |-> 40, temperature |-> 38, soilMoisture |-> 20] => (h = 1 /\ g = 1)

WitnessC9 ==
  \E t \in Requests :
    /\ pc[t] = "set_class"
    /\ call[t].data = [humidity |-> 40, temperature |-> 38, soilMoisture |-> 20]
    /\ call[t].heat_stress = 1
    /\ call[t].drought_stress = 1

\* C10: when predict_irrigation comes back to the monitor, last_values becomes the
\* node just read, whether the result is a prediction or an error; and the
\* monitor does not invoke the pipeline on a node equal to last_values.
C10Step ==
  /\ PollerReturns =>
       /\ result'.kind \in {"ok", "error"}
       /\ last_values' = current
  /\ PollerInvokes => (current' = store /\ store # last_values)

ClaimC10 == [][C10Step]_vars

\* The pipeline returned an error on the node the store still holds.
WitnessC10 ==
  /\ pc[Poller] = "poll"
  /\ result.kind = "error"
  /\ last_values = store
  /\ store # None
  /\ read_ok

\* C11: with no external write to the store, once a pipeline run of the monitor
\* has returned its prediction, the node the next poll reads is not seen as
\* changed (the monitor's own result writes are not a change).
ClaimC11 ==
  (uplink = 0 /\ pc[Poller] = "poll" /\ result.kind = "ok") => ~Changed(store, last_values)

\* A node that lacks one of the three required fields.
Lacks(d) == \E f \in required_fields : d[f] = Missing

\* A node with a required field that is not a number.
Uncoercible(d) == \E f \in required_fields : d[f] = NonNumeric

\* The monitor's state and position are left as they are.
MonitorSkips ==
  /\ pc'[Poller] = "poll"
  /\ call'[Poller] = call[Poller]
  /\ UNCHANGED <<last_values, consecutive_errors, result, current>>

\* C12: a successful read of a node that lacks a required field leaves the
\* monitor polling, with last_values, consecutive_errors and the pipeline
\* untouched; such a node never equals last_values, so every later read of it
\* finds it changed again.
C12Again == (store # None /\ Lacks(store)) => (last_values = None \/ store # last_values)

C12Step == (pc[Poller] = "poll" /\ store # None /\ Lacks(store) /\ read_ok') => MonitorSkips

ClaimC12 == [](C12Again) /\ [][C12Step]_vars

\* After a processed node, the monitor has read a node without soilMoisture.
WitnessC12 ==
  /\ pc[Poller] = "poll"
  /\ read_ok
  /\ Lacks(store)
  /\ store.humidity # Missing
  /\ last_values # None
  /\ last_read = None
  /\ consecutive_errors = 0

\* C13: a successful read of a complete node with a value float() rejects
\* leaves the monitor polling, with last_values, consecutive_errors and the
\* pipeline untouched; such a node never equals last_values, so every later read
\* of it finds it changed again.
C13Again == (~Lacks(store) /\ Uncoercible(store)) => (last_values = None \/ store # last_values)

C13Step ==
  (pc[Poller] = "poll" /\ ~Lacks(store) /\ Uncoercible(store) /\ read_ok') => MonitorSkips

ClaimC13 == [](C13Again) /\ [][C13Step]_vars

\* After a processed node, the monitor has read a node with a non-numeric field.
WitnessC13 ==
  /\ pc[Poller] = "poll"
  /\ read_ok
  /\ ~Lacks(store)
  /\ Uncoercible(store)
  /\ last_values # None
  /\ last_read = None
  /\ consecutive_errors = 0

\* The (irrigation_class, timestamp) pairs that finished invocations returned:
\* the monitor's latest one and the one in each request's response.
C14Pairs ==
  {<<result.irrigation_class, result.timestamp>>} \cup
  {<<response[t].result.irrigation_class, response[t].result.timestamp>> : t \in Requests}

\* Every invocation has finished and returned a prediction.
C14Finished ==
  /\ pc[Poller] = "poll"
  /\ result.kind = "ok"
  /\ \A t \in Requests : pc[t] = "done" /\ response[t].result.kind = "ok"

\* C14: once the monitor's and the requests' pipeline invocations have all
\* finished with a prediction, the pair stored at sensorData/prediction_class and
\* sensorData/last_prediction_time is the pair one of them returned.
ClaimC14 ==
  C14Finished => <<store.prediction_class, store.last_prediction_time>> \in C14Pairs

\* C15: when the only invocations of the pipeline so far returned {error},
\* sensorData/prediction_class and sensorData/last_prediction_time are as they
\* were before (never written).
ClaimC15 ==
  (/\ \E t \in Requests : pc[t] = "done" /\ response[t].result.kind = "error"
   /\ \A t \in Requests : ~InPredict(t) /\ response[t].result.kind # "ok")
  => (store.prediction_class = Missing /\ store.last_prediction_time = Missing)

\* A node with the three required fields, all numbers.
Good(d) == ~Lacks(d) /\ ~Uncoercible(d)

\* C16: the monitor starts with last_values unset and consecutive_errors 0, and
\* last_values stays unset until the first pipeline run has come back; a
\* successful read of a complete, coercible node while last_values is unset
\* invokes the pipeline on that node, whatever it holds, and when that run comes
\* back last_values is that node.
C16Init == pc[Poller] = "poll" /\ last_values = None /\ consecutive_errors = 0

C16Unset == result.kind = "none" => last_values = None

C16Step ==
  /\ (PollerRead /\ read_ok' /\ last_values = None /\ Good(store)) =>
       /\ PollerInvokes
       /\ current' = store
       /\ call'[Poller].data = [humidity |-> store.humidity, temperature |-> store.temperature,
                                soilMoisture |-> store.soilMoisture]
  /\ (PollerReturns /\ last_values = None) => (last_values' = current /\ Good(current))

ClaimC16 == C16Init /\ [](C16Unset) /\ [][C16Step]_vars

\* The first complete node the monitor read came from the uplink, after failed
\* reads, and is in the pipeline.
WitnessC16 ==
  /\ pc[Poller] = "set_time"
  /\ last_values = None
  /\ result.kind = "none"
  /\ current.humidity = 40
  /\ uplink = 1

\* C17: the monitor invokes the pipeline only on a node it has just read that
\* holds the three required fields as numbers; last_values changes only when a
\* pipeline run comes back to the monitor, and becomes the node read in that
\* iteration; so last_values, once set, is a complete, coercible node.
C17Set ==
  /\ last_values # None => Good(last_values)
  /\ InPredict(Poller) =>
       /\ Good(current)
       /\ call[Poller].data = [humidity |-> current.humidity,
                               temperature |-> current.temperature,
                               soilMoisture |-> current.soilMoisture]

C17Step ==
  /\ PollerInvokes => (Good(store) /\ current' = store)
  /\ last_values' # last_values => (PollerReturns /\ last_values' = current)

ClaimC17 == [](C17Set) /\ [][C17Step]_vars

\* last_values is the node the uplink wrote, which the monitor read and processed.
WitnessC17 ==
  /\ pc[Poller] = "poll"
  /\ last_values # None
  /\ last_values.humidity = 40
  /\ uplink = 1
  /\ store.humidity = 40

\* C18: consecutive_errors is always between 0 and 5, the loop is over exactly
\* when it is 5, and no step raises it by more than 1.
C18Range ==
  /\ consecutive_errors \in 0 .. 5
  /\ pc[Poller] = "stopped" <=> consecutive_errors = 5

C18Step == consecutive_errors' <= consecutive_errors + 1

ClaimC18 == [](C18Range) /\ [][C18Step]_vars

\* One failure below the ceiling, the loop still running.
WitnessC18 == pc[Poller] = "poll" /\ consecutive_errors = 4 /\ ~read_ok

\* C19: when sensorData/raw holds the three fields as numbers, a successful read
\* by the monitor that finds `sensorData` changed invokes the pipeline with
\* those three values (the input the trigger would use).
C19Step ==
  (PollerRead /\ read_ok' /\ Good(store.raw) /\ (last_values = None \/ store # last_values)) =>
    (PollerInvokes /\ call'[Poller].data = store.raw)

ClaimC19 == [][C19Step]_vars

\* C20: a successful read that returns no node (None) leaves the monitor
\* at the top of the loop: the pipeline is not invoked and last_values and
\* consecutive_errors are as they were.
C20Step == (PollerRead /\ read_ok' /\ store = None) => MonitorSkips

ClaimC20 == [][C20Step]_vars

\* After one failed read, a read returned None: the count is still 1.
WitnessC20 ==
  /\ pc[Poller] = "poll"
  /\ read_ok
  /\ store = None
  /\ last_values = None
  /\ consecutive_errors = 1

=============================================================================
